---------------------------- MODULE Spec2Model ----------------------------
(***************************************************************************)
(* Model of the Redfish collector (src/collector.py): board and sensor     *)
(* discovery, creation of the aggregate entities, and the bounded-duration *)
(* sampling loop with its per-tick fan-out / fan-in.                       *)
(*                                                                         *)
(* Representation of Python values:                                        *)
(*   - a str is a sequence of one-character strings, so that lower(),      *)
(*     "in", startswith() and endswith() are computed, not assumed;        *)
(*   - a resource path is the sequence of its "/"-separated segments       *)
(*     (path.split("/")); "/a/b" is << "", "a", "b" >>, "" is << "" >>;    *)
(*   - a JSON value read with .get() is tagged: None, Str(s), Num(n),      *)
(*     List(l); a JSON object is a function from its keys;                 *)
(*   - a dict is a sequence of <<key, value>> pairs in insertion order.    *)
(***************************************************************************)
EXTENDS Integers, Sequences, FiniteSets, TLC

(***************************************************************************)
(* Bounds of the model.                                                    *)
(***************************************************************************)
\* longest Members list the chassis collection returns
MaxMembers == 2
\* longest Members list a sensor collection returns
MaxSensors == 1
\* largest value the monotonic clock is read at
MaxClock == 1

(***************************************************************************)
(* Program constants.                                                      *)
(***************************************************************************)
HTTP_OK_200 == 200

s_redfish == <<"r","e","d","f","i","s","h">>
s_v1 == <<"v","1">>
s_Chassis == <<"C","h","a","s","s","i","s">>
s_Sensors == <<"S","e","n","s","o","r","s">>
s_Power == <<"P","o","w","e","r">>
s_Thermal == <<"T","h","e","r","m","a","l">>
s_temp == <<"t","e","m","p">>
s_pwr == <<"p","w","r">>
s_power == <<"p","o","w","e","r">>
s_vr_ == <<"v","r","_">>
s_motherboard == <<"m","o","t","h","e","r","b","o","a","r","d">>
s_self == <<"s","e","l","f">>
s_gpu_board == <<"g","p","u","_","b","o","a","r","d">>
s_Watts == <<"W","a","t","t","s">>
s_Celsius == <<"C","e","l","s","i","u","s">>
s_RPM == <<"R","P","M">>
s_empty == << >>

\* REDFISH_BASE = '/redfish/v1'
REDFISH_BASE == << s_empty, s_redfish, s_v1 >>
\* the names identify_boards monitors
MONITORED_BOARDS == { s_motherboard, s_self, s_gpu_board }

(***************************************************************************)
(* str operations.                                                         *)
(***************************************************************************)
UpperCase == <<"A","B","C","D","E","F","G","H","I","J","K","L","M",
               "N","O","P","Q","R","S","T","U","V","W","X","Y","Z">>
LowerCase == <<"a","b","c","d","e","f","g","h","i","j","k","l","m",
               "n","o","p","q","r","s","t","u","v","w","x","y","z">>

\* the lower-case letter of each upper-case letter
LowerMap ==
    [c \in { UpperCase[i] : i \in 1..26 } |->
        LowerCase[CHOOSE i \in 1..26 : UpperCase[i] = c]]

\* c.lower(), for one character
LowerChar(c) == IF c \in DOMAIN LowerMap THEN LowerMap[c] ELSE c

\* s.lower()
Lower(s) == [i \in 1..Len(s) |-> LowerChar(s[i])]

\* sub in s
Contains(sub, s) ==
    \E i \in 1..(Len(s) - Len(sub) + 1) : SubSeq(s, i, i + Len(sub) - 1) = sub

\* s.startswith(pre)
StartsWith(s, pre) ==
    /\ Len(pre) <= Len(s)
    /\ SubSeq(s, 1, Len(pre)) = pre

\* s.endswith(suf)
EndsWith(s, suf) ==
    /\ Len(suf) <= Len(s)
    /\ SubSeq(s, Len(s) - Len(suf) + 1, Len(s)) = suf

(***************************************************************************)
(* Path operations.                                                        *)
(***************************************************************************)
\* Path(path).name: the final component, trailing slashes dropped
PathName(path) ==
    LET idx == { i \in 1..Len(path) : path[i] # s_empty }
    IN  IF idx = {} THEN s_empty
        ELSE path[CHOOSE i \in idx : \A j \in idx : j <= i]

\* marker in path, for a marker without "/"
PathContains(marker, path) == \E i \in 1..Len(path) : Contains(marker, path[i])

\* path.endswith(suffix), for a suffix without "/"
PathEndsWith(path, suffix) == EndsWith(path[Len(path)], suffix)

\* f'{REDFISH_BASE}/Chassis/{board}/{leaf}'
BoardPath(board, leaf) == REDFISH_BASE \o << s_Chassis, board, leaf >>

(***************************************************************************)
(* JSON values and dicts.                                                  *)
(***************************************************************************)
None == [t |-> "None"]
Str(s) == [t |-> "str", v |-> s]
Num(n) == [t |-> "num", v |-> n]
List(l) == [t |-> "list", v |-> l]

\* bool(x)
Truthy(x) ==
    /\ x # None
    /\ ~(x.t = "str" /\ x.v = s_empty)
    /\ ~(x.t = "num" /\ x.v = 0)
    /\ ~(x.t = "list" /\ x.v = << >>)

\* obj.get(key, default)
GetOr(obj, key, default) == IF key \in DOMAIN obj THEN obj[key] ELSE default

\* obj.get(key)
Get(obj, key) == GetOr(obj, key, None)

\* a or b
Or(a, b) == IF Truthy(a) THEN a ELSE b

\* list(d)
Keys(d) == [i \in 1..Len(d) |-> d[i][1]]

\* set(d)
KeySet(d) == { d[i][1] : i \in 1..Len(d) }

\* k in d
Has(d, k) == k \in KeySet(d)

\* d[k], for k in d
Lookup(d, k) == d[CHOOSE i \in 1..Len(d) : d[i][1] = k][2]

\* d[k] = v: an existing key keeps its position, a new key is appended
Put(d, k, v) ==
    IF Has(d, k)
    THEN [i \in 1..Len(d) |-> IF d[i][1] = k THEN <<k, v>> ELSE d[i]]
    ELSE Append(d, <<k, v>>)

\* set(seq)
Range(seq) == { seq[i] : i \in 1..Len(seq) }

\* the sequences over S of length at most n
SeqsUpTo(S, n) == UNION { [1..k -> S] : k \in 0..n }

\* {} (a JSON object without keys)
EmptyObj == [k \in {} |-> None]

\* a JSON object as a Python value
Obj(o) == [t |-> "obj", v |-> o]

(***************************************************************************)
(* The gateway (self._bmc.get): it raises, or answers with a status and a  *)
(* JSON body.                                                              *)
(***************************************************************************)
Raise == [kind |-> "raise"]
Http(status, body) == [kind |-> "http", status |-> status, body |-> body]

\* a collection member {"@odata.id": path}
Member(path) == [k \in {"@odata.id"} |-> path]

\* the str "" as a path
EmptyPath == << s_empty >>

s_Self == <<"S","e","l","f">>
s_GPU_Board == <<"G","P","U","_","B","o","a","r","d">>
s_Node == <<"N","o","d","e">>
s_Selfish == <<"S","e","l","f","i","s","h">>
s_Motherboard == <<"M","o","t","h","e","r","b","o","a","r","d">>

\* chassis members a BMC may list; the last one is written with a trailing "/"
ChassisMembers ==
    { Member(REDFISH_BASE \o << s_Chassis, s_Self >>),
      Member(REDFISH_BASE \o << s_Chassis, s_GPU_Board >>),
      Member(REDFISH_BASE \o << s_Chassis, s_Node >>),
      Member(REDFISH_BASE \o << s_Chassis, s_Selfish >>),
      Member(REDFISH_BASE \o << s_Chassis, s_Self, s_empty >>) }

\* what the gateway may answer to GET /redfish/v1/Chassis
ChassisReplies ==
    { Raise, Http(500, EmptyObj) }
      \cup { Http(HTTP_OK_200, [Members |-> m]) :
                m \in SeqsUpTo(ChassisMembers \cup { EmptyObj }, MaxMembers) }

s_Power_Temp == <<"P","o","w","e","r","_","T","e","m","p">>
s_VR_Power == <<"V","R","_","P","o","w","e","r">>
s_In_Pwr == <<"I","n","_","P","w","r">>
s_Fan_Power == <<"F","a","n","_","P","o","w","e","r">>
s_Fan1 == <<"F","a","n","1">>
s_VR_Temp == <<"V","R","_","T","e","m","p">>

\* members a sensor collection may list; EmptyObj has no "@odata.id"
SensorMembers ==
    { Member(BoardPath(s_Self, s_Sensors) \o << s_Power_Temp >>),
      Member(BoardPath(s_Self, s_Sensors) \o << s_VR_Power >>),
      Member(BoardPath(s_Self, s_Sensors) \o << s_In_Pwr >>),
      Member(BoardPath(s_GPU_Board, s_Sensors) \o << s_Fan_Power >>),
      Member(BoardPath(s_GPU_Board, s_Sensors) \o << s_Fan1 >>),
      Member(BoardPath(s_GPU_Board, s_Sensors) \o << s_VR_Temp >>),
      EmptyObj }

\* what the gateway may answer to GET .../Chassis/{board}/Sensors
SensorCollections ==
    { Raise, Http(500, EmptyObj), Http(HTTP_OK_200, EmptyObj) }
      \cup { Http(HTTP_OK_200, [Members |-> m]) : m \in SeqsUpTo(SensorMembers, MaxSensors) }

\* the same, per board
SensorReplies == [board \in { s_Self, s_GPU_Board } |-> SensorCollections]

(***************************************************************************)
(* State.                                                                  *)
(***************************************************************************)
VARIABLES
    pc,               \* where the program is
    error,            \* the exception that ended it, "" while none has
    boards,           \* self._boards
    sensors,          \* self._sensors
    power,            \* self._power
    power_supplies,   \* self._power_power_supplies
    thermal_temps,    \* self._thermal_temps
    thermal_fans,     \* self._thermal_fans
    chassis_status,   \* response.status of identify_boards, 0 before the fetch
    all_boards,       \* set(all_boards) of identify_boards
    ignored_boards,   \* ignored of identify_boards
    sensor_ids,       \* set(sensors) of identify_sensors
    ignored_sensors,  \* ignored of identify_sensors
    cursor,           \* paths add_power / add_thermal has been through in its loop
    now,              \* the last value read from monotonic()
    start_time,       \* start_time of collect_samples
    collect_duration, \* collect_duration of collect_samples
    time_delta,       \* time_delta of the tick
    futures,          \* future_to_path: each submitted path's future
    ticks,            \* iterations of the while loop begun: 0, 1, or 2 for two or more
    diag              \* the diagnostics the tick printed

store == << boards, sensors, power, power_supplies, thermal_temps, thermal_fans >>
locals == << chassis_status, all_boards, ignored_boards, sensor_ids, ignored_sensors,
             cursor >>
sampling == << now, start_time, collect_duration, time_delta, futures, ticks, diag >>
vars == << pc, error, store, locals, sampling >>

\* __init__ up to the first discovery call
Init ==
    /\ pc = "identify_boards"
    /\ error = ""
    /\ boards = << >>
    /\ sensors = << >>
    /\ power = << >>
    /\ power_supplies = << >>
    /\ thermal_temps = << >>
    /\ thermal_fans = << >>
    /\ chassis_status = 0
    /\ all_boards = {}
    /\ ignored_boards = {}
    /\ sensor_ids = {}
    /\ ignored_sensors = {}
    /\ cursor = 0
    /\ now = 0
    /\ start_time = 0
    /\ collect_duration = 0
    /\ time_delta = 0
    /\ futures = << >>
    /\ ticks = 0
    /\ diag = {}

\* an exception leaves the method and the program
Crash(exception) ==
    /\ pc' = "crashed"
    /\ error' = exception

\* self._redfish_get(path), given the gateway's answer
RedfishGet(reply) ==
    IF reply.status = HTTP_OK_200 THEN Obj(reply.body) ELSE None

(***************************************************************************)
(* identify_boards                                                         *)
(***************************************************************************)
\* the test written as a substring match: 'self' in name.lower(), ...
IsMonitoredBoard_Substring(name) ==
    \E monitored \in MONITORED_BOARDS : Contains(monitored, Lower(name))

\* name.lower() in {'motherboard', 'self', 'gpu_board'}
IsMonitoredBoard(name) == Lower(name) \in MONITORED_BOARDS

\* the loop over paths, from the dict b
RECURSIVE BoardsFrom(_, _)
BoardsFrom(paths, b) ==
    IF paths = << >> THEN b
    ELSE LET name == PathName(Head(paths))
         IN  BoardsFrom(Tail(paths),
                        IF IsMonitoredBoard(name)
                        THEN Put(b, name, [power |-> EmptyObj])
                        ELSE b)

IdentifyBoards(replies) ==
    /\ pc = "identify_boards"
    /\ UNCHANGED sampling
    /\ \E reply \in replies :
         IF reply.kind = "raise"
         THEN /\ Crash("GatewayError")
              /\ UNCHANGED << store, locals >>
         ELSE /\ chassis_status' = reply.status
              /\ IF reply.status = HTTP_OK_200
                 THEN LET members == reply.body["Members"] IN
                      IF \E i \in 1..Len(members) : "@odata.id" \notin DOMAIN members[i]
                      THEN \* member['@odata.id']
                           /\ Crash("KeyError")
                           /\ UNCHANGED << store, all_boards, ignored_boards,
                                           sensor_ids, ignored_sensors, cursor >>
                      ELSE LET paths == [i \in 1..Len(members) |-> members[i]["@odata.id"]]
                               names == { PathName(paths[i]) : i \in 1..Len(paths) }
                           IN  \E found \in { BoardsFrom(paths, boards) } :
                               /\ boards' = found
                               /\ all_boards' = names
                               /\ ignored_boards' = names \ KeySet(found)
                               /\ pc' = "identify_sensors"
                               /\ UNCHANGED << error, sensors, power, power_supplies,
                                               thermal_temps, thermal_fans,
                                               sensor_ids, ignored_sensors, cursor >>
                 ELSE \* paths is unbound at "all_boards = [... for board in paths]"
                      /\ Crash("UnboundLocalError")
                      /\ UNCHANGED << store, all_boards, ignored_boards,
                                      sensor_ids, ignored_sensors, cursor >>

(***************************************************************************)
(* identify_sensors                                                        *)
(***************************************************************************)
\* the elif without its "and not name.startswith('vr_')"
SensorKind_NoPrefixTest(name) ==
    IF Contains(s_temp, name) THEN "THERMAL"
    ELSE IF Contains(s_pwr, name) \/ Contains(s_power, name) THEN "POWER"
    ELSE ""

\* the branch of the if / elif on name = Path(sensor).name.lower():
\* the kind of the descriptor created, "" when none is
SensorKind(name) ==
    IF Contains(s_temp, name) THEN "THERMAL"
    ELSE IF (Contains(s_pwr, name) \/ Contains(s_power, name)) /\ ~StartsWith(name, s_vr_)
         THEN "POWER"
         ELSE ""

\* the body of the loop, for a sensor named name (lower-cased) of that kind
AddSensor(d, sensor, name, kind) ==
    IF kind # ""
    THEN Put(d, sensor, [name |-> name, kind |-> kind, readings |-> << >>, units |-> None])
    ELSE d

\* the loop over [s for s in sensors if s], from the dict d
RECURSIVE SensorsFrom(_, _)
SensorsFrom(ids, d) ==
    IF ids = << >> THEN d
    ELSE IF Head(ids) = EmptyPath THEN SensorsFrom(Tail(ids), d)
    ELSE LET name == Lower(PathName(Head(ids)))
         IN  SensorsFrom(Tail(ids), AddSensor(d, Head(ids), name, SensorKind(name)))

\* [s.get('@odata.id', '') for s in response.get('Members', {})]
MemberIds(response) ==
    LET members == GetOr(response.v, "Members", << >>)
    IN  [i \in 1..Len(members) |-> GetOr(members[i], "@odata.id", EmptyPath)]

\* sensors, after the loop over the boards bs with the gateway's answers
RECURSIVE DiscoveredIds(_, _)
DiscoveredIds(bs, answer) ==
    IF bs = << >> THEN << >>
    ELSE MemberIds(RedfishGet(answer[Head(bs)])) \o DiscoveredIds(Tail(bs), answer)

IdentifySensors(replies) ==
    /\ pc = "identify_sensors"
    /\ UNCHANGED sampling
    /\ \E answer \in [KeySet(boards) -> UNION { replies[b] : b \in KeySet(boards) }] :
         IF \E b \in KeySet(boards) : answer[b] \notin replies[b]
         THEN FALSE
         ELSE IF \E b \in KeySet(boards) : answer[b].kind = "raise"
         THEN /\ Crash("GatewayError")
              /\ UNCHANGED << store, locals >>
         ELSE IF \E b \in KeySet(boards) : RedfishGet(answer[b]) = None
         THEN \* response.get on None
              /\ Crash("AttributeError")
              /\ UNCHANGED << store, locals >>
         ELSE \E ids \in { DiscoveredIds(Keys(boards), answer) } :
              \E found \in { SensorsFrom(ids, sensors) } :
                  /\ sensors' = found
                  /\ sensor_ids' = Range(ids)
                  /\ ignored_sensors' = Range(ids) \ KeySet(found)
                  /\ pc' = "add_power"
                  /\ UNCHANGED << error, boards, power, power_supplies,
                                  thermal_temps, thermal_fans,
                                  chassis_status, all_boards, ignored_boards, cursor >>

(***************************************************************************)
(* add_power and add_thermal                                               *)
(***************************************************************************)
\* response.get(key) as a list to loop over: nothing to loop over when it is None
ListOf(obj, key) == IF key \in DOMAIN obj THEN obj[key] ELSE << >>

\* a Reading Store entity without readings
Entity(name, kind, units) ==
    [name |-> name, kind |-> kind, readings |-> << >>, units |-> units]

\* path.split('/')[-2:]
LastTwo(path) ==
    IF Len(path) <= 2 THEN path ELSE SubSeq(path, Len(path) - 1, Len(path))

\* whether x.get('Name') or x.get('@odata.id').split('/')[-2:] calls split on None
NameRaises(x) == ~Truthy(Get(x, "Name")) /\ "@odata.id" \notin DOMAIN x

\* x.get('Name') or x.get('@odata.id').split('/')[-2:], when that does not raise
NameOf(x) ==
    IF Truthy(Get(x, "Name")) THEN x["Name"] ELSE List(LastTwo(x["@odata.id"]))

\* whether value can be a dict key
Hashable(value) == value.t # "list"

\* f'{board} power'
PowerName(board) == Str(board \o <<" ","p","o","w","e","r">>)

\* the first loop of add_power, over the boards bs, from the dict d
RECURSIVE BoardPowerFrom(_, _)
BoardPowerFrom(bs, d) ==
    IF bs = << >> THEN d
    ELSE BoardPowerFrom(Tail(bs),
                        Put(d, Head(bs), Entity(PowerName(Head(bs)), "POWER", Str(s_Watts))))

\* add_power's loop over power_supplies; r is [d: the dict, err: the exception raised]
RECURSIVE AddPowerSupplies(_, _)
AddPowerSupplies(psus, r) ==
    IF psus = << >> \/ r.err # "" THEN r
    ELSE LET psu == Head(psus) IN
         IF NameRaises(psu) THEN [r EXCEPT !.err = "AttributeError"]
         ELSE IF ~Hashable(NameOf(psu)) THEN [r EXCEPT !.err = "TypeError"]
         ELSE AddPowerSupplies(Tail(psus),
                 [r EXCEPT !.d = Put(@, NameOf(psu),
                                     Entity(NameOf(psu), "POWER_SUPPLY", Get(psu, "Units")))])

\* the body of add_power's loop over power_paths, for the gateway's reply
AddPowerPath(reply, r) ==
    IF reply.kind = "raise" THEN [r EXCEPT !.err = "GatewayError"]
    ELSE IF RedfishGet(reply) = None THEN [r EXCEPT !.err = "AttributeError"]
    ELSE AddPowerSupplies(ListOf(reply.body, "PowerSupplies"), r)

\* add_power up to the end of one iteration of its loop over power_paths:
\* the first step goes through the loop over the boards before it
AddPower(replies) ==
    /\ pc = "add_power"
    /\ UNCHANGED sampling
    /\ power' = IF cursor = 0 THEN BoardPowerFrom(Keys(boards), power) ELSE power
    /\ IF cursor = Len(boards)
       THEN /\ pc' = "add_thermal"
            /\ UNCHANGED << error, power_supplies, cursor >>
       ELSE \E reply \in replies :
            \E r \in { AddPowerPath(reply, [d |-> power_supplies, err |-> ""]) } :
                /\ power_supplies' = r.d
                /\ IF r.err # ""
                   THEN Crash(r.err) /\ UNCHANGED cursor
                   ELSE /\ UNCHANGED error
                        /\ pc' = IF cursor + 1 = Len(boards) THEN "add_thermal" ELSE pc
                        /\ cursor' = IF cursor + 1 = Len(boards) THEN 0 ELSE cursor + 1
    /\ UNCHANGED << boards, sensors, thermal_temps, thermal_fans, chassis_status,
                    all_boards, ignored_boards, sensor_ids, ignored_sensors >>

\* thermometer.get('ReadingUnits') or thermometer.get('Units', 'Celsius')
TemperatureUnits(thermometer) ==
    Or(Get(thermometer, "ReadingUnits"), GetOr(thermometer, "Units", Str(s_Celsius)))

\* fan.get('ReadingUnits', 'RPM')
FanUnits(fan) == GetOr(fan, "ReadingUnits", Str(s_RPM))

\* add_thermal's loop over thermometers; r is [temps, fans, err]
RECURSIVE AddTemperatures(_, _)
AddTemperatures(thermometers, r) ==
    IF thermometers = << >> \/ r.err # "" THEN r
    ELSE LET thermometer == Head(thermometers) IN
         IF NameRaises(thermometer) THEN [r EXCEPT !.err = "AttributeError"]
         ELSE IF ~Hashable(NameOf(thermometer)) THEN [r EXCEPT !.err = "TypeError"]
         ELSE AddTemperatures(Tail(thermometers),
                 [r EXCEPT !.temps = Put(@, NameOf(thermometer),
                                         Entity(NameOf(thermometer), "THERMAL",
                                                TemperatureUnits(thermometer)))])

\* add_thermal's loop over fans
RECURSIVE AddFans(_, _)
AddFans(fans, r) ==
    IF fans = << >> \/ r.err # "" THEN r
    ELSE LET fan == Head(fans) IN
         IF NameRaises(fan) THEN [r EXCEPT !.err = "AttributeError"]
         ELSE IF ~Hashable(NameOf(fan)) THEN [r EXCEPT !.err = "TypeError"]
         ELSE AddFans(Tail(fans),
                 [r EXCEPT !.fans = Put(@, NameOf(fan),
                                        Entity(NameOf(fan), "FAN", FanUnits(fan)))])

\* the body of add_thermal's loop over thermal_paths, for the gateway's reply
AddThermalPath(reply, r) ==
    IF reply.kind = "raise" THEN [r EXCEPT !.err = "GatewayError"]
    ELSE IF RedfishGet(reply) = None THEN [r EXCEPT !.err = "AttributeError"]
    ELSE AddFans(ListOf(reply.body, "Fans"),
                 AddTemperatures(ListOf(reply.body, "Temperatures"), r))

\* add_thermal up to the end of one iteration of its loop over thermal_paths
AddThermal(replies) ==
    /\ pc = "add_thermal"
    /\ UNCHANGED sampling
    /\ IF cursor = Len(boards)
       THEN /\ pc' = "constructed"
            /\ UNCHANGED << error, thermal_temps, thermal_fans, cursor >>
       ELSE \E reply \in replies :
            \E r \in { AddThermalPath(reply, [temps |-> thermal_temps,
                                               fans |-> thermal_fans, err |-> ""]) } :
                /\ thermal_temps' = r.temps
                /\ thermal_fans' = r.fans
                /\ IF r.err # ""
                   THEN Crash(r.err) /\ UNCHANGED cursor
                   ELSE /\ UNCHANGED error
                        /\ pc' = IF cursor + 1 = Len(boards) THEN "constructed" ELSE pc
                        /\ cursor' = IF cursor + 1 = Len(boards) THEN 0 ELSE cursor + 1
    /\ UNCHANGED << boards, sensors, power, power_supplies, chassis_status,
                    all_boards, ignored_boards, sensor_ids, ignored_sensors >>

(***************************************************************************)
(* The normalizers.  Each works on the record st of the dicts it may write *)
(* and gives [st: the dicts after it, err: the exception it raised or ""]. *)
(***************************************************************************)
\* the write under a key taken from the clock when the normalizer runs,
\* one clock unit after the tick's time_delta
SetReading_ClockAtSave(d, key, t, value) ==
    Put(d, key, [Lookup(d, key) EXCEPT !.readings = Put(@, t + 1, value)])

\* d[key]['readings'][t] = value, for key in d
SetReading(d, key, t, value) ==
    Put(d, key, [Lookup(d, key) EXCEPT !.readings = Put(@, t, value)])

\* whether f'{value:6.1f}' formats
IsNumber(value) == value.t = "num"

\* whether f'{name:<65}' formats
IsStr(name) == name.t = "str"

SaveSensorData(st, response, t, path) ==
    IF response = None THEN [st |-> st, err |-> "TypeError"]
    ELSE IF "Reading" \notin DOMAIN response.v THEN [st |-> st, err |-> "KeyError"]
    ELSE IF ~IsNumber(response.v["Reading"]) THEN [st |-> st, err |-> "TypeError"]
    ELSE IF ~Has(st.sensors, path) THEN [st |-> st, err |-> "KeyError"]
    ELSE [st |-> [st EXCEPT !.sensors = SetReading(@, path, t, response.v["Reading"])],
          err |-> ""]

\* save_power_data's loop over power_supplies
RECURSIVE SavePowerSupplies(_, _, _)
SavePowerSupplies(psus, t, r) ==
    IF psus = << >> \/ r.err # "" THEN r
    ELSE LET psu == Head(psus)
             psu_power == Get(psu, "PowerInputWatts")
         IN  IF NameRaises(psu) THEN [r EXCEPT !.err = "AttributeError"]
             ELSE IF psu_power = None THEN SavePowerSupplies(Tail(psus), t, r)
             ELSE IF ~IsStr(NameOf(psu)) \/ ~IsNumber(psu_power)
                  THEN [r EXCEPT !.err = "TypeError"]
             ELSE IF ~Has(r.st.power_supplies, NameOf(psu))
                  THEN [r EXCEPT !.err = "KeyError"]
             ELSE SavePowerSupplies(Tail(psus), t,
                     [r EXCEPT !.st.power_supplies =
                                  SetReading(@, NameOf(psu), t, psu_power)])

SavePowerData(st, response, t, boardname) ==
    IF response = None THEN [st |-> st, err |-> "AttributeError"]
    ELSE LET control == GetOr(response.v, "PowerControl", << EmptyObj >>) IN
         IF control = << >> THEN [st |-> st, err |-> "IndexError"]
         ELSE IF ~Has(st.power, boardname) THEN [st |-> st, err |-> "KeyError"]
         ELSE LET power_ == Get(control[1], "PowerConsumedWatts")
                  written == [st EXCEPT !.power = SetReading(@, boardname, t, power_)]
              IN  IF ~IsNumber(power_) THEN [st |-> written, err |-> "TypeError"]
                  ELSE SavePowerSupplies(ListOf(response.v, "PowerSupplies"), t,
                                         [st |-> written, err |-> ""])

\* thermometer.get('ReadingCelsius', thermometer.get('Reading'))
TemperatureReading(thermometer) ==
    GetOr(thermometer, "ReadingCelsius", Get(thermometer, "Reading"))

\* save_thermal_data's loop over thermometers
RECURSIVE SaveTemperatures(_, _, _)
SaveTemperatures(thermometers, t, r) ==
    IF thermometers = << >> \/ r.err # "" THEN r
    ELSE LET thermometer == Head(thermometers)
             temp == TemperatureReading(thermometer)
         IN  IF NameRaises(thermometer) THEN [r EXCEPT !.err = "AttributeError"]
             ELSE IF ~Hashable(NameOf(thermometer)) THEN [r EXCEPT !.err = "TypeError"]
             ELSE IF ~Has(r.st.thermal_temps, NameOf(thermometer))
                  THEN [r EXCEPT !.err = "KeyError"]
             ELSE LET written == [r EXCEPT !.st.thermal_temps =
                                      SetReading(@, NameOf(thermometer), t, temp)]
                  IN  IF temp # None /\ (~IsStr(NameOf(thermometer)) \/ ~IsNumber(temp))
                      THEN [written EXCEPT !.err = "TypeError"]
                      ELSE SaveTemperatures(Tail(thermometers), t, written)

\* save_thermal_data's loop over fans
RECURSIVE SaveFans(_, _, _)
SaveFans(fans, t, r) ==
    IF fans = << >> \/ r.err # "" THEN r
    ELSE LET fan == Head(fans)
             rpm == Get(fan, "Reading")
         IN  IF NameRaises(fan) THEN [r EXCEPT !.err = "AttributeError"]
             ELSE IF ~Hashable(NameOf(fan)) THEN [r EXCEPT !.err = "TypeError"]
             ELSE IF ~Has(r.st.thermal_fans, NameOf(fan)) THEN [r EXCEPT !.err = "KeyError"]
             ELSE LET written == [r EXCEPT !.st.thermal_fans =
                                      SetReading(@, NameOf(fan), t, rpm)]
                  IN  IF ~IsStr(NameOf(fan)) \/ ~IsNumber(rpm)
                      THEN [written EXCEPT !.err = "TypeError"]
                      ELSE SaveFans(Tail(fans), t, written)

SaveThermalData(st, response, t) ==
    IF response = None THEN [st |-> st, err |-> "AttributeError"]
    ELSE SaveFans(ListOf(response.v, "Fans"), t,
                  SaveTemperatures(ListOf(response.v, "Temperatures"), t,
                                   [st |-> st, err |-> ""]))

(***************************************************************************)
(* collect_samples                                                         *)
(***************************************************************************)
\* power_paths
PowerPaths == [i \in 1..Len(boards) |-> BoardPath(Keys(boards)[i], s_Power)]

\* thermal_paths
ThermalPaths == [i \in 1..Len(boards) |-> BoardPath(Keys(boards)[i], s_Thermal)]

\* collection_paths
CollectionPaths == Keys(sensors) \o PowerPaths \o ThermalPaths

\* the dicts the normalizers write
Readings ==
    [sensors |-> sensors, power |-> power, power_supplies |-> power_supplies,
     thermal_temps |-> thermal_temps, thermal_fans |-> thermal_fans]

\* the else branch of the try: the normalizer the path is routed to
Route(st, response, t, path) ==
    IF PathContains(s_Sensors, path) THEN SaveSensorData(st, response, t, path)
    ELSE IF PathEndsWith(path, s_Power) THEN SavePowerData(st, response, t, path[5])
    ELSE IF PathEndsWith(path, s_Thermal) THEN SaveThermalData(st, response, t)
    ELSE [st |-> st, err |-> ""]

\* whether the path reaches print(f'Unexpected path: {path}')
Unrouted(path) ==
    /\ ~PathContains(s_Sensors, path)
    /\ ~PathEndsWith(path, s_Power)
    /\ ~PathEndsWith(path, s_Thermal)

\* the body of the for loop over as_completed, for the future of path
\* whose gateway call ended with reply
Consumed(st, reply, t, path) ==
    IF Len(path) < 5
    THEN \* boardname = path.split('/')[4]
         [st |-> st, err |-> "IndexError", diag |-> {}]
    ELSE IF reply.kind = "raise"
    THEN [st |-> st, err |-> "", diag |-> { << "exception", path >> }]
    ELSE LET r == Route(st, RedfishGet(reply), t, path)
         IN  [st |-> r.st, err |-> r.err,
              diag |-> IF Unrouted(path) THEN { << "unexpected", path >> } ELSE {}]

\* a clock that may be set back between two reads, as time.time() is
ClockReads_WallClock == 0..MaxClock

\* the values monotonic() may return: none before the last one read
ClockReads == now..MaxClock

\* collect_samples is called, for no time at all or for as long as the clock
\* is read: start_time = monotonic(), the clock's origin
CollectSamples ==
    /\ pc = "constructed"
    /\ \E d \in { 0, MaxClock } : collect_duration' = d
    /\ start_time' = now
    /\ pc' = "loop"
    /\ UNCHANGED << error, store, locals, now, time_delta, futures, ticks, diag >>

\* the loop test reached without waiting for the tick's futures, as when the
\* executor is not used as a context manager and its results are not iterated
LoopCheck_Eager ==
    /\ pc \in { "loop", "fanin" }
    /\ \E t \in ClockReads :
         /\ now' = t
         /\ pc' = IF t < start_time + collect_duration THEN "submit" ELSE "returned"
    /\ UNCHANGED << error, store, locals, start_time, collect_duration,
                    time_delta, futures, ticks, diag >>

\* while monotonic() < start_time + collect_duration
LoopCheck ==
    /\ pc = "loop"
    /\ \E t \in ClockReads :
         /\ now' = t
         /\ pc' = IF t < start_time + collect_duration THEN "submit" ELSE "returned"
    /\ UNCHANGED << error, store, locals, start_time, collect_duration,
                    time_delta, futures, ticks, diag >>

\* the executor is created, every path is submitted, time_delta is read
Submit ==
    /\ pc = "submit"
    /\ ticks' = IF ticks < 2 THEN ticks + 1 ELSE ticks
    /\ IF CollectionPaths = << >>
       THEN \* ThreadPoolExecutor(max_workers=0)
            /\ Crash("ValueError")
            /\ UNCHANGED << now, time_delta, futures, diag >>
       ELSE /\ futures' = [p \in Range(CollectionPaths) |-> "running"]
            /\ diag' = {}
            /\ \E t \in ClockReads :
                 /\ now' = t
                 /\ time_delta' = t - start_time
            /\ pc' = "fanin"
            /\ UNCHANGED error
    /\ UNCHANGED << store, locals, start_time, collect_duration >>

\* a worker that is given the normalizer too: it fetches and saves on its own
\* thread
Complete_Saving(path) ==
    /\ pc = "fanin"
    /\ path \in DOMAIN futures
    /\ futures[path] = "running"
    /\ futures' = [futures EXCEPT ![path] = "done"]
    /\ \E reply \in { Http(HTTP_OK_200, [Reading |-> Num(30)]) } :
       \E r \in { SaveSensorData(Readings, RedfishGet(reply), time_delta, path) } :
         sensors' = r.st.sensors
    /\ UNCHANGED << pc, error, boards, power, power_supplies, thermal_temps, thermal_fans,
                    locals, now, start_time, collect_duration, time_delta, ticks, diag >>

\* a worker's self._redfish_get(path) ends and its future is done
Complete(path) ==
    /\ pc = "fanin"
    /\ path \in DOMAIN futures
    /\ futures[path] = "running"
    /\ futures' = [futures EXCEPT ![path] = "done"]
    /\ UNCHANGED << pc, error, store, locals, now, start_time, collect_duration,
                    time_delta, ticks, diag >>

\* as_completed yields the done future of path, and the loop body runs on it
Consume(path, replies) ==
    /\ pc = "fanin"
    /\ path \in DOMAIN futures
    /\ futures[path] = "done"
    /\ \E reply \in replies :
         \E r \in { Consumed(Readings, reply, time_delta, path) } :
         /\ sensors' = r.st.sensors
         /\ power' = r.st.power
         /\ power_supplies' = r.st.power_supplies
         /\ thermal_temps' = r.st.thermal_temps
         /\ thermal_fans' = r.st.thermal_fans
         /\ diag' = diag \cup r.diag
         /\ IF r.err # ""
            THEN \* leaving the with block waits for every worker
                 /\ futures' = [q \in DOMAIN futures |->
                                  IF q = path \/ futures[q] = "consumed"
                                  THEN "consumed" ELSE "done"]
                 /\ Crash(r.err)
            ELSE /\ futures' = [futures EXCEPT ![path] = "consumed"]
                 /\ pc' = IF \A q \in DOMAIN futures \ { path } : futures[q] = "consumed"
                          THEN "loop" ELSE "fanin"
                 /\ UNCHANGED error
    /\ UNCHANGED << boards, locals, now, start_time, collect_duration, time_delta, ticks >>

(***************************************************************************)
(* The BMC the collector is run against.                                   *)
(***************************************************************************)
s_PSU1 == <<"P","S","U","1">>
s_Inlet == <<"I","n","l","e","t">>
s_Fahrenheit == <<"F">>

\* answers to GET /redfish/v1/Chassis
BmcChassis ==
    { Raise,
      Http(500, EmptyObj),
      Http(HTTP_OK_200, [Members |-> << >>]),
      Http(HTTP_OK_200, [Members |-> << Member(REDFISH_BASE \o << s_Chassis, s_Self >>) >>]),
      Http(HTTP_OK_200,
           [Members |-> << Member(REDFISH_BASE \o << s_Chassis, s_Motherboard >>),
                           Member(REDFISH_BASE \o << s_Chassis, s_GPU_Board >>) >>]) }

\* answers to GET .../Chassis/{board}/Sensors: the board Self has one sensor
BmcSensors ==
    [board \in { s_Self, s_Motherboard, s_GPU_Board } |->
        IF board = s_Self
        THEN { Raise,
               Http(500, EmptyObj),
               Http(HTTP_OK_200,
                    [Members |-> << Member(BoardPath(s_Self, s_Sensors) \o << s_In_Pwr >>) >>]) }
        ELSE { Http(HTTP_OK_200, [Members |-> << >>]) }]

\* answers to GET of a sensor
BmcSensor ==
    { Raise,
      Http(500, EmptyObj),
      Http(HTTP_OK_200, EmptyObj),
      Http(HTTP_OK_200, [Reading |-> Num(30)]) }

\* answers to GET .../Chassis/{board}/Power
BmcPower ==
    { Raise,
      Http(500, EmptyObj),
      Http(HTTP_OK_200,
           [PowerControl |-> << [PowerConsumedWatts |-> Num(42)] >>,
            PowerSupplies |-> << [Name |-> Str(s_PSU1), PowerInputWatts |-> Num(100)] >>]) }

\* answers to GET .../Chassis/{board}/Thermal
BmcThermal ==
    { Raise,
      Http(500, EmptyObj),
      Http(HTTP_OK_200,
           [Temperatures |-> << [Name |-> Str(s_Inlet), ReadingCelsius |-> Num(30)] >>,
            Fans |-> << [Name |-> Str(s_Fan1), Reading |-> Num(5000)] >>]),
      Http(HTTP_OK_200,
           [Temperatures |-> << [Name |-> Str(s_Inlet), Reading |-> Num(45),
                                 ReadingUnits |-> Str(s_Fahrenheit)] >>,
            Fans |-> << [Name |-> Str(s_Fan1), Reading |-> Num(5000)] >>]) }

\* what the gateway may answer to a GET of a monitored path
BmcReplies(path) ==
    IF Has(sensors, path) THEN BmcSensor
    ELSE IF path \in Range(PowerPaths) THEN BmcPower
    ELSE BmcThermal

(***************************************************************************)
(* The program: construction, then one call of collect_samples.            *)
(***************************************************************************)
Next ==
    \/ IdentifyBoards(BmcChassis)
    \/ IdentifySensors(BmcSensors)
    \/ AddPower(BmcPower)
    \/ AddThermal(BmcThermal)
    \/ CollectSamples
    \/ LoopCheck
    \/ Submit
    \/ \E path \in DOMAIN futures : Complete(path)
    \/ \E path \in DOMAIN futures : Consume(path, BmcReplies(path))

Spec == Init /\ [][Next]_vars

(***************************************************************************)
(* Discovery alone, over every answer of the bounded gateway.              *)
(***************************************************************************)
NextDiscovery ==
    \/ IdentifyBoards(ChassisReplies)
    \/ IdentifySensors(SensorReplies)

SpecDiscovery == Init /\ [][NextDiscovery]_vars

(***************************************************************************)
(* One board whose payloads vary: fields present or missing, entities seen  *)
(* at discovery or only later, a sensor listed under a short path.          *)
(***************************************************************************)
s_Temp == <<"T","e","m","p">>
s_Exhaust == <<"E","x","h","a","u","s","t">>
s_Fan2 == <<"F","a","n","2">>

\* the sensor id /Temp: two segments
ShortSensor == << s_empty, s_Temp >>

\* the sensor id /redfish/v1/Chassis/Self/Temp: not under Sensors
StraySensor == REDFISH_BASE \o << s_Chassis, s_Self, s_Temp >>

\* answers to GET /redfish/v1/Chassis: the board Self
PayloadChassis ==
    { Http(HTTP_OK_200, [Members |-> << Member(REDFISH_BASE \o << s_Chassis, s_Self >>) >>]) }

\* answers to GET .../Chassis/Self/Sensors
PayloadSensors ==
    [board \in { s_Self } |->
        { Http(HTTP_OK_200, [Members |-> << >>]),
          Http(HTTP_OK_200, [Members |-> << Member(ShortSensor) >>]),
          Http(HTTP_OK_200, [Members |-> << Member(StraySensor) >>]) }]

\* answers to GET of a sensor
PayloadSensor == { Http(HTTP_OK_200, [Reading |-> Num(30)]) }

\* answers to GET .../Chassis/Self/Power
PayloadPower ==
    { Http(HTTP_OK_200, [PowerControl |-> << [PowerConsumedWatts |-> Num(42)] >>]),
      Http(HTTP_OK_200,
           [PowerControl |-> << [PowerConsumedWatts |-> Num(42)] >>,
            PowerSupplies |-> << [Name |-> Str(s_PSU1), PowerInputWatts |-> Num(100)] >>]),
      Http(HTTP_OK_200, EmptyObj),
      Http(HTTP_OK_200, [PowerControl |-> << >>]),
      Http(HTTP_OK_200,
           [PowerControl |-> << EmptyObj >>,
            PowerSupplies |-> << [Name |-> Str(s_PSU1), PowerInputWatts |-> Num(100)] >>]) }

\* answers to GET .../Chassis/Self/Thermal
PayloadThermal ==
    { Http(HTTP_OK_200,
           [Temperatures |-> << [Name |-> Str(s_Inlet), ReadingCelsius |-> Num(30)] >>,
            Fans |-> << [Name |-> Str(s_Fan1), Reading |-> Num(5000)] >>]),
      Http(HTTP_OK_200, EmptyObj),
      Http(HTTP_OK_200,
           [Temperatures |-> << [Name |-> Str(s_Inlet)],
                                [Name |-> Str(s_Exhaust), Reading |-> Num(45),
                                 Units |-> Str(s_Fahrenheit)] >>]),
      Http(HTTP_OK_200,
           [Fans |-> << [Name |-> Str(s_Fan1)],
                        [Name |-> Str(s_Fan2), Reading |-> Num(5000)] >>]) }

\* what the gateway may answer to a GET of a monitored path
PayloadReplies(path) ==
    IF Has(sensors, path) THEN PayloadSensor
    ELSE IF path \in Range(PowerPaths) THEN PayloadPower
    ELSE PayloadThermal

NextPayloads ==
    \/ IdentifyBoards(PayloadChassis)
    \/ IdentifySensors(PayloadSensors)
    \/ AddPower(PayloadPower)
    \/ AddThermal(PayloadThermal)
    \/ CollectSamples
    \/ LoopCheck
    \/ Submit
    \/ \E path \in DOMAIN futures : Complete(path)
    \/ \E path \in DOMAIN futures : Consume(path, PayloadReplies(path))

SpecPayloads == Init /\ [][NextPayloads]_vars

(***************************************************************************)
(* Two boards that answer each path the same way in every tick.            *)
(***************************************************************************)
\* answers to GET /redfish/v1/Chassis: the boards Motherboard and GPU_Board
FixedChassis ==
    { Http(HTTP_OK_200,
           [Members |-> << Member(REDFISH_BASE \o << s_Chassis, s_Motherboard >>),
                           Member(REDFISH_BASE \o << s_Chassis, s_GPU_Board >>) >>]) }

\* answers to GET .../Chassis/{board}/Sensors: no sensor
FixedSensors ==
    [board \in { s_Motherboard, s_GPU_Board } |-> { Http(HTTP_OK_200, [Members |-> << >>]) }]

\* the answer to GET .../Chassis/{board}/Power
FixedPower ==
    { Http(HTTP_OK_200,
           [PowerControl |-> << [PowerConsumedWatts |-> Num(42)] >>,
            PowerSupplies |-> << [Name |-> Str(s_PSU1), PowerInputWatts |-> Num(100)] >>]) }

\* the answer to GET .../Chassis/{board}/Thermal: both boards name Inlet
FixedThermal(board) ==
    IF board = s_Motherboard
    THEN { Http(HTTP_OK_200,
                [Temperatures |-> << [Name |-> Str(s_Inlet), ReadingCelsius |-> Num(30)] >>,
                 Fans |-> << [Name |-> Str(s_Fan1), Reading |-> Num(5000)] >>]) }
    ELSE { Http(HTTP_OK_200,
                [Temperatures |-> << [Name |-> Str(s_Inlet), ReadingCelsius |-> Num(45)] >>,
                 Fans |-> << [Name |-> Str(s_Fan1), Reading |-> Num(5000)] >>]) }

\* the one answer of the gateway to a GET of a monitored path
FixedReplies(path) ==
    IF path \in Range(PowerPaths) THEN FixedPower ELSE FixedThermal(path[5])

NextFixed ==
    \/ IdentifyBoards(FixedChassis)
    \/ IdentifySensors(FixedSensors)
    \/ AddPower(FixedPower)
    \/ AddThermal(FixedThermal(s_Motherboard) \cup FixedThermal(s_GPU_Board))
    \/ CollectSamples
    \/ LoopCheck
    \/ Submit
    \/ \E path \in DOMAIN futures : Complete(path)
    \/ \E path \in DOMAIN futures : Consume(path, FixedReplies(path))

SpecFixed == Init /\ [][NextFixed]_vars

(***************************************************************************)
(* Properties of the program.                                              *)
(***************************************************************************)
\* whether the series of the entity d[e] holds value under the key t
Holds(d, e, t, value) ==
    /\ Has(d, e)
    /\ Has(Lookup(d, e).readings, t)
    /\ Lookup(Lookup(d, e).readings, t) = value

\* whether the series of the entity e is in d2 what it is in d1, or that with
\* an absent reading under the key t
AbsentAt(d1, d2, e, t) ==
    /\ Has(d1, e)
    /\ Has(d2, e)
    /\ \/ Lookup(d2, e).readings = Lookup(d1, e).readings
       \/ Lookup(d2, e).readings = Put(Lookup(d1, e).readings, t, None)

\* the keys under which an entity of d2 holds a reading that d1 does not hold
Written(d1, d2) ==
    UNION { { key \in KeySet(Lookup(d2, e).readings) :
                ~Holds(d1, e, key, Lookup(Lookup(d2, e).readings, key)) } :
            e \in KeySet(d2) }

\* the gateway's answers to path with a status other than 200
NotOk(path) ==
    { reply \in BmcReplies(path) : reply.kind = "http" /\ reply.status # HTTP_OK_200 }

\* C1: when the gateway call of a monitored path P raises in a tick, the
\* readings of every other entity are what they were, P's entity (the sensor of
\* a sensor path, the board's power of a power path) holds an absent reading
\* under the tick's elapsed key, and neither the tick nor the loop is aborted.
C1_RaiseRecordsAbsent ==
    [][\A path \in DOMAIN futures :
         Consume(path, { Raise }) =>
           /\ \A e \in KeySet(sensors) \ { path } : Lookup(sensors', e) = Lookup(sensors, e)
           /\ \A e \in KeySet(power) \ { path[5] } : Lookup(power', e) = Lookup(power, e)
           /\ << power_supplies, thermal_temps, thermal_fans >>'
                = << power_supplies, thermal_temps, thermal_fans >>
           /\ Has(sensors, path) => Holds(sensors', path, time_delta, None)
           /\ path \in Range(PowerPaths) => Holds(power', path[5], time_delta, None)
           /\ pc' \in { "fanin", "loop" }
           /\ error' = ""]_vars

\* C2: when the gateway answers a monitored path with a status other than 200
\* in a tick, no exception leaves collect_samples, the tick goes on, and the
\* path's entity has no reading, or an absent one, for the tick.
C2_NonSuccessIsNoData ==
    [][\A path \in DOMAIN futures :
         Consume(path, NotOk(path)) =>
           /\ error' = ""
           /\ pc' \in { "fanin", "loop" }
           /\ Has(sensors, path) => AbsentAt(sensors, sensors', path, time_delta)
           /\ path \in Range(PowerPaths) => AbsentAt(power, power', path[5], time_delta)]_vars

\* C3: every reading a step writes, in any of the five dicts, is written under
\* the tick's time_delta, and time_delta is computed once per tick: it changes
\* only when the tick's requests are submitted.
C3_OneKeyPerTick ==
    [][/\ \A n \in DOMAIN Readings : Written(Readings[n], Readings'[n]) \subseteq { time_delta }
       /\ time_delta' # time_delta => pc = "submit"]_vars

\* C3: two ticks are over, at the elapsed keys 0 and MaxClock, and the board
\* power, a power supply, a temperature and a fan each hold both keys.
C3_TwoTicksJoin ==
    /\ pc = "loop"
    /\ time_delta = MaxClock
    /\ \E e \in KeySet(power) : Keys(Lookup(power, e).readings) = << 0, MaxClock >>
    /\ \E e \in KeySet(power_supplies) :
         Keys(Lookup(power_supplies, e).readings) = << 0, MaxClock >>
    /\ \E e \in KeySet(thermal_temps) :
         Keys(Lookup(thermal_temps, e).readings) = << 0, MaxClock >>
    /\ \E e \in KeySet(thermal_fans) :
         Keys(Lookup(thermal_fans, e).readings) = << 0, MaxClock >>

\* C4: a reading stored under an elapsed key of an entity is never rewritten:
\* after every step each entity still holds, under each key it held, the value
\* it held.
C4_NeverRewritten ==
    [][\A n \in DOMAIN Readings :
         \A e \in KeySet(Readings[n]) :
           \A key \in KeySet(Lookup(Readings[n], e).readings) :
             Holds(Readings'[n], e, key, Lookup(Lookup(Readings[n], e).readings, key))]_vars

\* C5: the deadline is examined at tick boundaries only: with duration 0 the
\* loop returns at its first test, no request issued and the store unchanged;
\* when the clock is at or past the deadline after the first tick no second tick
\* is begun; and a tick that was begun leaves the fan-in only with every one of
\* its requests consumed, the loop going on to its next test.
C5_DeadlineAtTickBoundary ==
    [][/\ (pc = "loop" /\ collect_duration = 0) =>
            /\ pc' = "returned"
            /\ ticks' = 0
            /\ futures' = << >>
            /\ store' = store
       /\ (pc = "loop" /\ ticks = 1 /\ now' >= start_time + collect_duration) =>
            pc' = "returned"
       /\ (pc = "fanin" /\ pc' # "fanin") =>
            /\ pc' = "loop"
            /\ \A path \in DOMAIN futures : futures'[path] = "consumed"]_vars

\* C6: when the payload fetched for a sensor has no Reading field, the sensor
\* holds an absent reading under the tick's elapsed key, exactly one diagnostic
\* is printed, and nothing is raised: the tick goes on.
C6_MissingReadingIsAbsent ==
    [][\A path \in DOMAIN futures :
         (Has(sensors, path) /\ Consume(path, { Http(HTTP_OK_200, EmptyObj) })) =>
           /\ error' = ""
           /\ pc' \in { "fanin", "loop" }
           /\ Holds(sensors', path, time_delta, None)
           /\ Cardinality(diag' \ diag) = 1]_vars

\* C7: when the chassis fetch of identify_boards is answered with a status
\* other than 200, identify_boards ends without an exception, with no monitored
\* and no ignored board, and construction goes on to identify_sensors.
C7_ChassisFailureDegrades ==
    [][(pc = "identify_boards" /\ chassis_status' \notin { 0, HTTP_OK_200 }) =>
         /\ pc' = "identify_sensors"
         /\ error' = ""
         /\ boards' = << >>
         /\ ignored_boards' = {}]_vars

\* C8: of the boards a successful chassis fetch lists, a board is monitored
\* iff the lower-cased last segment of its path is motherboard, self or
\* gpu_board; every other one is in the ignored set; each is held once; the
\* monitored and the ignored boards are disjoint and together are all of them.
C8_MonitoredIff ==
    /\ \A name \in all_boards :
         /\ Has(boards, name) <=> Lower(name) \in { s_motherboard, s_self, s_gpu_board }
         /\ name \in ignored_boards <=> ~Has(boards, name)
    /\ KeySet(boards) \cup ignored_boards = all_boards
    /\ KeySet(boards) \cap ignored_boards = {}
    /\ Len(boards) = Cardinality(KeySet(boards))

\* C8: the chassis listed Self, in mixed case, and the near miss Selfish:
\* the first is monitored and the second ignored.
C8_SelfAndSelfish ==
    /\ pc = "identify_sensors"
    /\ all_boards = { s_Self, s_Selfish }
    /\ KeySet(boards) = { s_Self }
    /\ ignored_boards = { s_Selfish }

\* C9: each sensor id discovery returned, the empty id included, is in
\* exactly one of THERMAL, POWER and ignored, as its lower-cased last segment
\* decides: temp in it gives THERMAL; otherwise pwr or power in it, without the
\* prefix vr_, gives POWER; otherwise it is ignored.  An id listed twice is
\* held once, with that kind.
C9_ClassificationTotal ==
    /\ \A id \in sensor_ids :
         LET name == Lower(PathName(id))
             thermal == Contains(s_temp, name)
             powered == /\ ~thermal
                        /\ Contains(s_pwr, name) \/ Contains(s_power, name)
                        /\ ~StartsWith(name, s_vr_)
         IN  /\ thermal =>
                  /\ Has(sensors, id)
                  /\ Lookup(sensors, id).kind = "THERMAL"
                  /\ id \notin ignored_sensors
             /\ powered =>
                  /\ Has(sensors, id)
                  /\ Lookup(sensors, id).kind = "POWER"
                  /\ id \notin ignored_sensors
             /\ (~thermal /\ ~powered) =>
                  /\ ~Has(sensors, id)
                  /\ id \in ignored_sensors
    /\ KeySet(sensors) \subseteq sensor_ids
    /\ ignored_sensors \subseteq sensor_ids
    /\ Len(sensors) = Cardinality(KeySet(sensors))

\* C9: discovery returned VR_Power, which has power in it behind the prefix
\* vr_, and In_Pwr: the first is ignored and the second is a POWER sensor.
C9_PrefixedAndPlain ==
    /\ pc = "add_power"
    /\ BoardPath(s_Self, s_Sensors) \o << s_VR_Power >> \in ignored_sensors
    /\ Has(sensors, BoardPath(s_Self, s_Sensors) \o << s_In_Pwr >>)
    /\ Lookup(sensors, BoardPath(s_Self, s_Sensors) \o << s_In_Pwr >>).kind = "POWER"

\* C10: observing the name of an entity the Reading Store holds resets neither
\* its unit nor its series: after every step each entity is still held, with
\* the unit it had and every key its series had.
C10_CreationIdempotent ==
    [][\A n \in DOMAIN Readings :
         \A e \in KeySet(Readings[n]) :
           /\ Has(Readings'[n], e)
           /\ Lookup(Readings'[n], e).units = Lookup(Readings[n], e).units
           /\ KeySet(Lookup(Readings[n], e).readings)
                \subseteq KeySet(Lookup(Readings'[n], e).readings)]_vars

\* C13: the requests of a tick are submitted, and its time_delta is computed,
\* only when every request of the tick before it has been consumed: no future
\* is replaced while it is running or done, so requests of two ticks are never
\* in flight together.
C13_TicksSequential ==
    [][(\/ time_delta' # time_delta
        \/ ticks' # ticks
        \/ \E path \in DOMAIN futures' :
             /\ futures'[path] = "running"
             /\ path \in DOMAIN futures => futures[path] # "running")
       => \A path \in DOMAIN futures : futures[path] = "consumed"]_vars

\* C13: a second tick is in flight, its requests submitted after the first
\* tick's were all consumed.
C13_SecondTickInFlight ==
    /\ pc = "fanin"
    /\ ticks = 2
    /\ \E path \in DOMAIN futures : futures[path] = "running"
    /\ \E e \in KeySet(power) : Lookup(power, e).readings # << >>

\* whether the keys of the series are in increasing order, as inserted
Increasing(readings) ==
    \A i, j \in 1..Len(readings) : i < j => readings[i][1] < readings[j][1]

\* C14: the keys of every entity's series, in insertion order, are in
\* increasing elapsed-time order, in every state: after any number of ticks
\* and whatever the order the requests of each tick complete in.
C14_KeysInTimeOrder ==
    \A n \in DOMAIN Readings :
      \A e \in KeySet(Readings[n]) : Increasing(Lookup(Readings[n], e).readings)

\* C14: a fan holds readings of two ticks, under the keys 0 and then MaxClock,
\* while a request of the second tick is still to be consumed.
C14_TwoKeysMidTick ==
    /\ pc = "fanin"
    /\ \E path \in DOMAIN futures : futures[path] # "consumed"
    /\ \E e \in KeySet(thermal_fans) :
         Keys(Lookup(thermal_fans, e).readings) = << 0, MaxClock >>

\* C15: during collect_samples the store is written only by the fan-in: a step
\* in which a worker's request ends leaves every dict as it was, and a step
\* that changes a dict consumes exactly one done future, so that no two writes
\* are in progress together.
C15_WritesOnlyInFanIn ==
    [][LET ended == \E path \in DOMAIN futures :
                      futures[path] = "running" /\ futures'[path] = "done" /\ pc' = "fanin"
           consumes == \E path \in DOMAIN futures :
                         /\ futures[path] = "done"
                         /\ futures'[path] = "consumed"
                         /\ \A q \in DOMAIN futures \ { path } :
                              futures[q] = "consumed" <=> futures'[q] = "consumed"
       IN  pc \in { "loop", "submit", "fanin", "returned" } =>
             /\ ended => (store' = store)
             /\ (store' # store) => (pc = "fanin" /\ consumes)]_vars

\* C15: a reading has been written in the fan-in while another request of the
\* tick is still running on its worker.
C15_WriteWhileRunning ==
    /\ pc = "fanin"
    /\ \E path \in DOMAIN futures : futures[path] = "running"
    /\ \E path \in DOMAIN futures : futures[path] = "consumed"
    /\ \E e \in KeySet(sensors) : Has(Lookup(sensors, e).readings, time_delta)

\* C19: when no path is monitored, collect_samples with a positive duration
\* issues no request, leaves the store as it is and raises nothing: the tick
\* with no path goes back to the loop test, until the deadline.
C19_NoPathsRunsToExpiry ==
    [][(pc = "submit" /\ CollectionPaths = << >>) =>
         /\ error' = ""
         /\ pc' \in { "loop", "fanin" }
         /\ futures' = << >>
         /\ store' = store]_vars

\* the entries of the list payload[key], none when the payload has no such key
Entries(payload, key) ==
    IF key \in DOMAIN payload THEN Range(payload[key]) ELSE {}

\* the value of entry[key], None when the entry has no such key
Field(entry, key) == IF key \in DOMAIN entry THEN entry[key] ELSE None

\* C11: after the power normalizer has run on a payload at the elapsed key t,
\* the board's power series holds under t the PowerConsumedWatts of the first
\* element of PowerControl, or an absent reading when the array is missing or
\* empty or its first element has no such field, and nothing is raised.
C11_PowerReading ==
    [][\A path \in DOMAIN futures :
         \A reply \in PayloadPower :
           (path \in Range(PowerPaths) /\ Consume(path, { reply })) =>
             LET control == Field(reply.body, "PowerControl")
                 expected == IF control \in { None, << >> } THEN None
                             ELSE Field(control[1], "PowerConsumedWatts")
             IN  /\ Holds(power', path[5], time_delta, expected)
                 /\ error' = ""]_vars

\* C12: after the thermal normalizer has run on a payload at the elapsed key
\* t, each entry of Temperatures has its named entity hold under t its
\* ReadingCelsius, else its Reading, else an absent reading, with the unit
\* ReadingUnits, else Units, else Celsius; and each entry of Fans has its named
\* entity hold under t its Reading, with the unit ReadingUnits, else RPM.
C12_ThermalReadings ==
    [][\A path \in DOMAIN futures :
         \A reply \in PayloadThermal :
           (path \in Range(ThermalPaths) /\ Consume(path, { reply })) =>
             /\ \A entry \in Entries(reply.body, "Temperatures") :
                  /\ Holds(thermal_temps', entry.Name, time_delta,
                           IF "ReadingCelsius" \in DOMAIN entry THEN entry.ReadingCelsius
                           ELSE Field(entry, "Reading"))
                  /\ Lookup(thermal_temps', entry.Name).units =
                       (IF "ReadingUnits" \in DOMAIN entry THEN entry.ReadingUnits
                        ELSE IF "Units" \in DOMAIN entry THEN entry.Units
                        ELSE Str(s_Celsius))
             /\ \A entry \in Entries(reply.body, "Fans") :
                  /\ Holds(thermal_fans', entry.Name, time_delta, Field(entry, "Reading"))
                  /\ Lookup(thermal_fans', entry.Name).units =
                       (IF "ReadingUnits" \in DOMAIN entry THEN entry.ReadingUnits
                        ELSE Str(s_RPM))]_vars

\* whether the store holds every entity the payload names
Known(payload) ==
    /\ \A entry \in Entries(payload, "PowerSupplies") : Has(power_supplies, entry.Name)
    /\ \A entry \in Entries(payload, "Temperatures") : Has(thermal_temps, entry.Name)
    /\ \A entry \in Entries(payload, "Fans") : Has(thermal_fans, entry.Name)

\* whether every entry of the payload has its reading
AllReadingsPresent(payload) ==
    /\ "PowerControl" \in DOMAIN payload =>
         \A entry \in Range(payload.PowerControl) : "PowerConsumedWatts" \in DOMAIN entry
    /\ \A entry \in Entries(payload, "PowerSupplies") : "PowerInputWatts" \in DOMAIN entry
    /\ \A entry \in Entries(payload, "Temperatures") :
         "ReadingCelsius" \in DOMAIN entry \/ "Reading" \in DOMAIN entry
    /\ \A entry \in Entries(payload, "Fans") : "Reading" \in DOMAIN entry

\* C16: a power supply, temperature or fan that a tick's payload names, every
\* reading in its place, and that the store does not hold is created by that
\* step, with its unit, and holds its reading under the tick's elapsed key; and
\* no step removes an entity the store holds.
C16_CreatedWhenFirstSeen ==
    [][/\ \A path \in DOMAIN futures :
            \A reply \in PayloadReplies(path) :
              (Consume(path, { reply }) /\ AllReadingsPresent(reply.body)) =>
                /\ path \in Range(PowerPaths) =>
                     \A entry \in Entries(reply.body, "PowerSupplies") :
                       /\ Holds(power_supplies', entry.Name, time_delta,
                                entry.PowerInputWatts)
                       /\ Lookup(power_supplies', entry.Name).units = Field(entry, "Units")
                /\ path \in Range(ThermalPaths) =>
                     /\ \A entry \in Entries(reply.body, "Temperatures") :
                          /\ Has(thermal_temps', entry.Name)
                          /\ Has(Lookup(thermal_temps', entry.Name).readings, time_delta)
                     /\ \A entry \in Entries(reply.body, "Fans") :
                          /\ Has(thermal_fans', entry.Name)
                          /\ Has(Lookup(thermal_fans', entry.Name).readings, time_delta)
       /\ \A n \in DOMAIN Readings : KeySet(Readings[n]) \subseteq KeySet(Readings'[n])]_vars

\* C17: in a payload whose entities the store holds, a missing field costs
\* its own reading only.  A power payload without PowerConsumedWatts records
\* an absent board power and still every power supply that has
\* PowerInputWatts; a thermal payload records every temperature and every fan,
\* those after an entry without a reading too, each under the tick's key.
C17_MissingFieldIsLocal ==
    [][\A path \in DOMAIN futures :
         \A reply \in PayloadReplies(path) :
           (Consume(path, { reply }) /\ Known(reply.body)) =>
             /\ path \in Range(PowerPaths) =>
                  \A entry \in Entries(reply.body, "PowerSupplies") :
                    "PowerInputWatts" \in DOMAIN entry
                    => Holds(power_supplies', entry.Name, time_delta, entry.PowerInputWatts)
             /\ path \in Range(ThermalPaths) =>
                  /\ \A entry \in Entries(reply.body, "Temperatures") :
                       Holds(thermal_temps', entry.Name, time_delta,
                             Field(entry, IF "ReadingCelsius" \in DOMAIN entry
                                          THEN "ReadingCelsius" ELSE "Reading"))
                  /\ \A entry \in Entries(reply.body, "Fans") :
                       Holds(thermal_fans', entry.Name, time_delta, Field(entry, "Reading"))]_vars

\* C18: a completed path with Sensors in it changes the sensors only; else
\* one ending in Power the power dicts only; else one ending in Thermal the
\* thermal dicts only; and for any other monitored path, of however many
\* segments, a diagnostic is printed, nothing is written and nothing is raised.
C18_Routing ==
    [][\A path \in DOMAIN futures :
         \A reply \in PayloadReplies(path) :
           Consume(path, { reply }) =>
             LET last == path[Len(path)]
                 sensor == \E i \in 1..Len(path) : Contains(s_Sensors, path[i])
                 powered == ~sensor /\ EndsWith(last, s_Power)
                 thermal == ~sensor /\ ~powered /\ EndsWith(last, s_Thermal)
             IN  /\ sensor => << power, power_supplies, thermal_temps, thermal_fans >>'
                                = << power, power_supplies, thermal_temps, thermal_fans >>
                 /\ powered => << sensors, thermal_temps, thermal_fans >>'
                                 = << sensors, thermal_temps, thermal_fans >>
                 /\ thermal => << sensors, power, power_supplies >>'
                                 = << sensors, power, power_supplies >>
                 /\ (~sensor /\ ~powered /\ ~thermal) =>
                      /\ << "unexpected", path >> \in diag'
                      /\ store' = store
                      /\ error' = ""
                      /\ pc' \in { "fanin", "loop" }]_vars

\* the store with every series emptied: the store as construction leaves it
Cleared ==
    [n \in DOMAIN Readings |->
        [i \in 1..Len(Readings[n]) |->
            << Readings[n][i][1], [Readings[n][i][2] EXCEPT !.readings = << >>] >>]]

\* the store after the futures of paths are consumed in that order at the key t
RECURSIVE ConsumedInOrder(_, _, _)
ConsumedInOrder(paths, st, t) ==
    IF paths = << >> THEN st
    ELSE ConsumedInOrder(Tail(paths),
                         Consumed(st, CHOOSE reply \in FixedReplies(Head(paths)) : TRUE,
                                  t, Head(paths)).st,
                         t)

\* C20: with a fixed answer per monitored path, the store after a tick is the
\* same whatever order the requests complete in: after the first tick it is
\* what consuming the futures in the order of submission gives.
C20_OrderIndependent ==
    (pc \in { "loop", "returned" } /\ ticks = 1)
    => Readings = ConsumedInOrder(CollectionPaths, Cleared, time_delta)

=============================================================================
